---- MODULE Spec2Model ----
(***************************************************************************)
(* Model of the agent/job coordination layer of src/orchestrator.py.       *)
(*                                                                         *)
(* The two JSON documents (agents.json, jobs.json) and the env bundle      *)
(* directory are the shared state.  Every request handler runs in its own  *)
(* thread (FastAPI runs "def" endpoints in a thread pool), so a handler is *)
(* modelled as a sequence of steps, one per access to shared storage:      *)
(* read_json and write_json each take _fs_lock for the duration of ONE     *)
(* call, so each call is one atomic step, and the handler's local          *)
(* computation between two calls is folded into the adjacent step.         *)
(*                                                                         *)
(* Records keep the fields the handlers branch on or write: agent_id,      *)
(* token and last_seen of an agent; job_id, agent_id, env_token, status,   *)
(* output and updated of a job.  hostname, ip, ssh_pubkey, meta, args,     *)
(* is_spa and created are stored once and never read back by a handler.    *)
(*                                                                         *)
(* Spec starts from the empty store; SpecRestart starts over documents an  *)
(* earlier run has left on disk.  SpecEndToEnd and SpecPendingBeforeUpload *)
(* are sessions of one client that makes a fixed list of calls in order.   *)
(*                                                                         *)
(* SpecStore and SpecServing describe the storage layer one file-system    *)
(* call at a time: _fs_lock as state, write_json's temporary file, its     *)
(* os.replace, the module-level creation of missing documents, and, in     *)
(* SpecStore, a kill of the process at any point.  There a handler is the  *)
(* sequence of read_json and write_json calls it makes.                    *)
(***************************************************************************)
EXTENDS Naturals, Sequences, FiniteSets, TLC

\* ---------------------------------------------------------------- bounds
NumProcs     == 2   \* request threads that may run concurrently
MaxCalls     == 5   \* requests accepted in a run from the empty store
RestartCalls == 2   \* requests accepted in a run over a stored state
MaxAgents    == 2   \* agent_ids that may be generated
MaxJobs      == 2   \* job_ids that may be generated
MaxEnvs      == 2   \* env_tokens that may be generated
MaxTime      == 1   \* last value int(time.time()) may return
StoreCalls   == 3   \* requests accepted in a run of the storage layer
MaxCrashes   == 1   \* times the process is killed in a run of the storage layer

Procs == 1..NumProcs

\* ------------------------------------------------------------ value space
None == "None"

\* uuid4 values: the k-th generated identifier of each kind.  Distinct by
\* construction, as uuid.uuid4() is treated by the code (no dedup check).
AgentIdOf(k)    == "a" \o ToString(k)
\* A generator that hands out the same agent token every time.
AgentTokenOf_reused(k) == "t1"
AgentTokenOf(k) == "t" \o ToString(k)
JobIdOf(k)      == "j" \o ToString(k)
\* A generator that hands out the same env token every time.
EnvTokenOf_reused(k) == "env_1"
\* A generator whose env tokens a caller can name in advance.
EnvTokenOf_guessed(k) == "env_abc"
EnvTokenOf(k)   == "env_" \o ToString(k)

\* The configured admin secret, a header value that matches nothing, and an
\* env token string that upload_env never generates.
AdminSecret == "adm"
BadToken    == "bad"
GuessedEnv  == "env_abc"

\* Values an agent may put in ReportReq.status (a plain str: the two the
\* comment names, the status of a new job, and a string that is neither) and
\* in ReportReq.output.
ReportStatuses == {"done", "failed", "pending", "running"}
Outputs        == {"ok"}
\* Env bundle payloads.
Payloads       == {"P1", "P2"}

AGENTS_FILE == "agents.json"
JOBS_FILE   == "jobs.json"

Empty == <<>>   \* the JSON document {}

VARIABLES
  fs,               \* path -> JSON document (agent_id/job_id -> record)
  envs,             \* env_token -> payload: the files under ENVS_DIR
  ADMIN_API_TOKEN,  \* os.environ.get("ADMIN_API_TOKEN"): None or the secret
  now,              \* the last value int(time.time()) returned
  nAgents, nJobs, nEnvs,   \* identifiers generated so far, per kind
  calls,            \* requests accepted so far
  limit,            \* requests the run accepts
  uploads,          \* history: <<env_token, payload>> of every upload_env answered
  req,              \* per request thread: the handler's position and locals
  \* The storage layer at the grain of its file-system calls.  The
  \* specifications of the handlers above keep the documents in fs and leave
  \* these as they are; the specifications of the storage layer use these.
  disk,             \* path -> <<kind, document>>: no file, torn text, JSON text
  fs_lock,          \* _fs_lock: 0 when free, else the thread that holds it
  th,               \* per request thread: its position in the storage calls
  written,          \* history: path -> the arguments of write_json calls so far
  import,           \* how far the module-level storage init has got
  crashes           \* times the process has been killed and started again

store == <<disk, fs_lock, th, written, import, crashes>>

vars == <<fs, envs, ADMIN_API_TOKEN, now, nAgents, nJobs, nEnvs, calls, limit,
          uploads, req, store>>

\* A thread with no request.
Idle ==
  [op |-> "idle", pc |-> "idle", token |-> None, agent_arg |-> None,
   job_id |-> None, env_token |-> None, status |-> None, output |-> None,
   agents |-> Empty, jobs |-> Empty, agent_id |-> None,
   code |-> 0, detail |-> None, body |-> {},
   reported_before |-> {}]

\* History kept with a poll_jobs request (not program state): job_ids whose
\* report had already been answered {"ok": true} when the poll arrived (those
\* whose answer is still held by a thread at that moment).
ReportedOk ==
  {req[q].job_id : q \in {x \in DOMAIN req :
      req[x].pc = "done" /\ req[x].op = "report" /\ req[x].code = 200}}

\* ------------------------------------------------------- storage helpers
\* read_json(path): the document at path ({} if the file is missing; the
\* module creates both files holding {} at import).
read_json(path) == fs[path]

\* write_json(path, data): replace the document at path.
write_json(path, data) == [fs EXCEPT ![path] = data]

\* json.dump / json.load of a bundle payload: the text written to the
\* bundle's file, and the value parsed back from it.
json_dump(data) == <<"json", data>>
json_load(text) == text[2]

\* d[k] = v on a dict.
Put(d, k, v) == [x \in (DOMAIN d) \cup {k} |-> IF x = k THEN v ELSE d[x]]

\* --------------------------------------------------------- pure helpers
\* require_admin with the comparison dropped: any header sent is accepted.
require_admin_any_header(token_header) ==
  IF ADMIN_API_TOKEN # None THEN token_header # None ELSE TRUE

\* require_admin(token_header): TRUE when the call is let through.
require_admin(token_header) ==
  IF ADMIN_API_TOKEN # None
    THEN ~(token_header = None \/ token_header # ADMIN_API_TOKEN)
    ELSE TRUE

\* The token scan of poll_jobs / report / download_env: the agent whose
\* record carries the token, None if there is none.
\* A token scan whose comparison is dropped: the first agent matches.
authenticate_any_token(agents, x_agent_token) ==
  IF DOMAIN agents = {} THEN None ELSE CHOOSE aid \in DOMAIN agents : TRUE
authenticate(agents, x_agent_token) ==
  LET m == {aid \in DOMAIN agents : agents[aid].token = x_agent_token}
  IN  IF m = {} THEN None ELSE CHOOSE aid \in m : TRUE

\* poll_jobs' filter without the agent_id test.
pending_for_anyone(jobs, agent_id) ==
  {jobs[jid] : jid \in {j \in DOMAIN jobs : jobs[j].status = "pending"}}

\* poll_jobs' filter: the pending jobs of agent_id.
pending_for(jobs, agent_id) ==
  {jobs[jid] : jid \in {j \in DOMAIN jobs :
      jobs[j].agent_id = agent_id /\ jobs[j].status = "pending"}}

\* download_env's check without the status test.
env_allowed_any_status(jobs, agent_id, env_token) ==
  \E jid \in DOMAIN jobs :
     /\ jobs[jid].agent_id = agent_id
     /\ jobs[jid].env_token = env_token

\* download_env's check: some pending job of agent_id references env_token.
env_allowed(jobs, agent_id, env_token) ==
  \E jid \in DOMAIN jobs :
     /\ jobs[jid].agent_id = agent_id
     /\ jobs[jid].status = "pending"
     /\ jobs[jid].env_token = env_token

\* The record register stores.
new_agent(agent_id, agent_token, t) ==
  [agent_id |-> agent_id, token |-> agent_token, last_seen |-> t]

\* The record create_job stores.
new_job(job_id, agent_id, env_token, t) ==
  [job_id |-> job_id, agent_id |-> agent_id, env_token |-> env_token,
   status |-> "pending", output |-> None, updated |-> t]

\* report's mutation of the job record.
\* A report handler whose change to the record is not kept.
reported_unsaved(job, status, output, t) == job
reported(job, status, output, t) ==
  [job EXCEPT !.status = status, !.output = output, !.updated = t]

\* report's checks without the ownership test.
report_check_no_owner(jobs, job_id, agent_id) ==
  IF job_id \notin DOMAIN jobs THEN 404 ELSE 200

\* report's checks on the job table it has read (lines 303-307): the status
\* code of the HTTPException raised, 200 if none is.
report_check(jobs, job_id, agent_id) ==
  IF job_id \notin DOMAIN jobs THEN 404
  ELSE IF jobs[job_id].agent_id # agent_id THEN 403
  ELSE 200

\* poll_jobs' mutation of the agent table.
touched(agents, agent_id, t) == [agents EXCEPT ![agent_id].last_seen = t]

\* int(time.time()): the clock never runs backwards, so a reading is at
\* least the previous one.
Clock == now..MaxTime

\* ------------------------------------------------------------- plumbing
\* A thread is free before its first request and after it has answered one.
\* The pool hands a request to any free thread; which one is immaterial, so
\* the lowest-numbered free thread takes it.
Free(p) == req[p].pc \in {"idle", "done"}

Accept(p) ==
  /\ Free(p)
  /\ \A q \in Procs : Free(q) => p <= q
  /\ calls < limit
  /\ calls' = calls + 1

\* The handler returns (or raises HTTPException): its locals are dropped and
\* the response stays visible until the thread takes its next request.
Respond(r, code, detail, body) ==
  [r EXCEPT !.pc = "done", !.code = code, !.detail = detail, !.body = body,
            !.agents = Empty, !.jobs = Empty]

Set(p, r) == req' = [req EXCEPT ![p] = r]

\* Header values a caller may send.
IssuedTokens == {AgentTokenOf(k) : k \in 1..nAgents}
AgentHeaders == {None, BadToken} \cup IssuedTokens
AdminHeaders == {None, AdminSecret} \cup IssuedTokens

\* The record of a request just accepted.
Fresh(r, op, token) == [r EXCEPT !.op = op, !.token = token]

\* A request refused on its credential: the handler has read nothing else of
\* it, so the record keeps the operation and the header alone.
Refused(op, token, detail) == Respond(Fresh(Idle, op, token), 403, detail, {})

\* require_admin does not look at the header when no admin token is
\* configured: the record keeps the header only when it was inspected.
Inspected(x_admin_token) ==
  IF ADMIN_API_TOKEN # None THEN x_admin_token ELSE None

\* ------------------------------------------------ storage layer: values
\* A write_json that writes into the document itself.
tmp_path_in_place(path) == path
\* write_json's temporary file (line 45).
tmp_path(path) == path \o ".tmp"

Docs  == {AGENTS_FILE, JOBS_FILE}
Files == Docs \cup {tmp_path(path) : path \in Docs}

\* What a path holds: nothing, the whole text json.dump writes for a
\* document, or a proper prefix of it (the file as open(.., "w") leaves it
\* and as it is while json.dump is writing).
NoFile     == <<"none", Empty>>
Torn(data) == <<"torn", data>>

\* No request in the storage layer.
NoCall ==
  [op |-> "idle", k |-> 0, pc |-> "idle", data |-> Empty, old |-> NoFile,
   got |-> Empty, code |-> 0]

\* The storage layer as the handler-level specifications start it: both
\* documents on disk with the content fs gives them, no temporary file left,
\* import finished, lock free.
StoreAtRest ==
  /\ disk = [f \in Files |-> IF f \in Docs THEN json_dump(fs[f]) ELSE NoFile]
  /\ fs_lock = 0
  /\ th = [p \in Procs |-> NoCall]
  /\ written = [path \in Docs |-> {}]
  /\ import = "serving"
  /\ crashes = 0

\* ------------------------------------------------------------------ Init
Init ==
  /\ fs = [x \in {AGENTS_FILE, JOBS_FILE} |-> Empty]
  /\ envs = Empty
  /\ uploads = {}
  /\ ADMIN_API_TOKEN = None
  /\ now = 0
  /\ nAgents = 0 /\ nJobs = 0 /\ nEnvs = 0
  /\ calls = 0
  /\ limit = MaxCalls
  /\ req = [p \in Procs |-> Idle]
  /\ StoreAtRest

\* The service started over the documents an earlier run left on disk (lines
\* 171-189 create a document only if it is missing): agent a1 registered, one
\* bundle uploaded, one job created for a1 that references the bundle.  The
\* admin token is configured or not.
InitRestart ==
  /\ fs = [x \in {AGENTS_FILE, JOBS_FILE} |->
            IF x = AGENTS_FILE
              THEN Put(Empty, AgentIdOf(1),
                       [agent_id |-> AgentIdOf(1), token |-> AgentTokenOf(1),
                        last_seen |-> 0])
              ELSE Put(Empty, JobIdOf(1),
                       [job_id |-> JobIdOf(1), agent_id |-> AgentIdOf(1),
                        env_token |-> EnvTokenOf(1), status |-> "pending",
                        output |-> None, updated |-> 0])]
  /\ envs = Put(Empty, EnvTokenOf(1), json_dump("P1"))
  /\ uploads = {<<EnvTokenOf(1), "P1">>}
  /\ ADMIN_API_TOKEN \in {None, AdminSecret}
  /\ now = 0
  /\ nAgents = 1 /\ nJobs = 1 /\ nEnvs = 1
  /\ calls = 0
  /\ limit = RestartCalls
  /\ req = [p \in Procs |-> Idle]
  /\ StoreAtRest

\* --------------------------------------------------------------- register
\* lines 200-213: read the agent table, generate agent_id and token, add the
\* record to the in-memory copy.
register_read(p) ==
  /\ Accept(p)
  /\ nAgents < MaxAgents
  /\ nAgents' = nAgents + 1
  /\ \E t \in Clock :
       LET agents      == read_json(AGENTS_FILE)
           agent_id    == AgentIdOf(nAgents + 1)
           agent_token == AgentTokenOf(nAgents + 1)
       IN  /\ now' = t
           /\ Set(p, [Fresh(Idle, "register", None) EXCEPT
                   !.pc = "register_write",
                   !.agent_id = agent_id,
                   !.body = [agent_id |-> agent_id, agent_token |-> agent_token],
                   !.agents = Put(agents, agent_id,
                                  new_agent(agent_id, agent_token, t))])
  /\ UNCHANGED <<store, fs, envs, ADMIN_API_TOKEN, uploads, nJobs, nEnvs, limit>>

\* lines 214-215: write the in-memory copy back and answer.
register_write(p) ==
  /\ req[p].pc = "register_write"
  /\ fs' = write_json(AGENTS_FILE, req[p].agents)
  /\ Set(p, Respond(req[p], 200, None, req[p].body))
  /\ UNCHANGED <<store, envs, ADMIN_API_TOKEN, uploads, now, nAgents, nJobs, nEnvs, calls, limit>>

\* ------------------------------------------------------------ list_agents
list_agents(p) ==
  /\ Accept(p)
  /\ \E x_admin_token \in AdminHeaders :
       LET r == Fresh(Idle, "list_agents", Inspected(x_admin_token))
       IN  IF ~require_admin(x_admin_token)
             THEN Set(p, Refused(r.op, r.token, "invalid admin token"))
             ELSE Set(p, Respond(r, 200, None,
                                 [agents |-> read_json(AGENTS_FILE)]))
  /\ UNCHANGED <<store, fs, envs, ADMIN_API_TOKEN, uploads, now, nAgents, nJobs, nEnvs, limit>>

\* -------------------------------------------------------------- list_jobs
list_jobs(p) ==
  /\ Accept(p)
  /\ \E x_admin_token \in AdminHeaders :
       LET r == Fresh(Idle, "list_jobs", Inspected(x_admin_token))
       IN  IF ~require_admin(x_admin_token)
             THEN Set(p, Refused(r.op, r.token, "invalid admin token"))
             ELSE Set(p, Respond(r, 200, None,
                                 [jobs |-> read_json(JOBS_FILE)]))
  /\ UNCHANGED <<store, fs, envs, ADMIN_API_TOKEN, uploads, now, nAgents, nJobs, nEnvs, limit>>

\* ------------------------------------------------------------- create_job
\* What an admin may put in payload["agent_id"] / payload["env_token"].
AgentArgs == {AgentIdOf(k) : k \in 1..nAgents} \cup {"a_unknown"}
EnvArgs   == {None, GuessedEnv} \cup DOMAIN envs

\* create_job calls that have not generated their job_id yet.
JobsToCome == Cardinality({q \in Procs : req[q].pc = "create_job_read_jobs"})

\* lines 234-235: require_admin, read the agent table.
create_job_read_agents(p) ==
  /\ Accept(p)
  /\ nJobs + JobsToCome < MaxJobs
  /\ \E x_admin_token \in AdminHeaders, agent_id \in AgentArgs,
        env_token \in EnvArgs :
       LET r == [Fresh(Idle, "create_job", Inspected(x_admin_token)) EXCEPT
                   !.agent_arg = agent_id, !.env_token = env_token]
       IN  IF ~require_admin(x_admin_token)
             THEN Set(p, Refused(r.op, r.token, "invalid admin token"))
             ELSE Set(p, [r EXCEPT !.pc = "create_job_read_jobs",
                                   !.agents = read_json(AGENTS_FILE)])
  /\ UNCHANGED <<store, fs, envs, ADMIN_API_TOKEN, uploads, now, nAgents, nJobs, nEnvs, limit>>

\* lines 236-253: read the job table, check the agent, generate job_id, add
\* the record to the in-memory copy.
create_job_read_jobs(p) ==
  /\ req[p].pc = "create_job_read_jobs"
  /\ LET r    == req[p]
         jobs == read_json(JOBS_FILE)
     IN  IF r.agent_arg \notin DOMAIN r.agents
           THEN /\ Set(p, Respond(r, 404, "agent not found", {}))
                /\ UNCHANGED <<nJobs, now>>
           ELSE \E t \in Clock :
                  LET job_id == JobIdOf(nJobs + 1)
                  IN  /\ nJobs' = nJobs + 1
                      /\ now' = t
                      /\ Set(p, [r EXCEPT
                            !.pc = "create_job_write",
                            !.job_id = job_id,
                            !.jobs = Put(jobs, job_id,
                               new_job(job_id, r.agent_arg, r.env_token, t))])
  /\ UNCHANGED <<store, fs, envs, ADMIN_API_TOKEN, uploads, nAgents, nEnvs, calls, limit>>

\* lines 254-255: write the in-memory copy back and answer.
create_job_write(p) ==
  /\ req[p].pc = "create_job_write"
  /\ fs' = write_json(JOBS_FILE, req[p].jobs)
  /\ Set(p, Respond(req[p], 200, None, [job_id |-> req[p].job_id]))
  /\ UNCHANGED <<store, envs, ADMIN_API_TOKEN, uploads, now, nAgents, nJobs, nEnvs, calls, limit>>

\* -------------------------------------------------------------- poll_jobs
\* lines 265-274: the token check, read the agent table, find the agent.
poll_jobs_auth(p) ==
  /\ Accept(p)
  /\ \E x_agent_token \in AgentHeaders :
       LET r == Fresh(Idle, "poll_jobs", x_agent_token)
       IN  IF x_agent_token = None
             THEN Set(p, Refused(r.op, r.token, "missing agent token"))
             ELSE LET agents   == read_json(AGENTS_FILE)
                      agent_id == authenticate(agents, x_agent_token)
                  IN  IF agent_id = None
                        THEN Set(p, Refused(r.op, r.token,
                                            "invalid agent token"))
                        ELSE Set(p, [r EXCEPT !.pc = "poll_jobs_touch",
                                              !.agents = agents,
                                              !.agent_id = agent_id,
                                              !.reported_before = ReportedOk])
  /\ UNCHANGED <<store, fs, envs, ADMIN_API_TOKEN, uploads, now, nAgents, nJobs, nEnvs, limit>>

\* lines 276-277: set last_seen in the in-memory copy and write it back.
poll_jobs_touch(p) ==
  /\ req[p].pc = "poll_jobs_touch"
  /\ \E t \in Clock :
       LET r      == req[p]
           agents == touched(r.agents, r.agent_id, t)
       IN  /\ now' = t
           /\ fs' = write_json(AGENTS_FILE, agents)
           /\ Set(p, [r EXCEPT !.pc = "poll_jobs_read_jobs", !.agents = agents])
  /\ UNCHANGED <<store, envs, ADMIN_API_TOKEN, uploads, nAgents, nJobs, nEnvs, calls, limit>>

\* lines 278-283: read the job table and answer the caller's pending jobs.
poll_jobs_read_jobs(p) ==
  /\ req[p].pc = "poll_jobs_read_jobs"
  /\ LET r    == req[p]
         jobs == read_json(JOBS_FILE)
     IN  Set(p, Respond(r, 200, None, pending_for(jobs, r.agent_id)))
  /\ UNCHANGED <<store, fs, envs, ADMIN_API_TOKEN, uploads, now, nAgents, nJobs, nEnvs, calls, limit>>

\* ----------------------------------------------------------------- report
\* What an agent may put in ReportReq.job_id.
JobArgs == {JobIdOf(k) : k \in 1..nJobs} \cup {"j_unknown"}

\* lines 292-301: the token check, read the agent table, find the agent.
report_auth(p) ==
  /\ Accept(p)
  /\ \E x_agent_token \in AgentHeaders, job_id \in JobArgs,
        status \in ReportStatuses, output \in Outputs :
       LET r == [Fresh(Idle, "report", x_agent_token) EXCEPT
                   !.job_id = job_id, !.status = status, !.output = output]
       IN  IF x_agent_token = None
             THEN Set(p, Refused(r.op, r.token, "missing agent token"))
             ELSE LET agents   == read_json(AGENTS_FILE)
                      agent_id == authenticate(agents, x_agent_token)
                  IN  IF agent_id = None
                        THEN Set(p, Refused(r.op, r.token,
                                            "invalid agent token"))
                        ELSE Set(p, [r EXCEPT !.pc = "report_read_jobs",
                                              !.agents = agents,
                                              !.agent_id = agent_id])
  /\ UNCHANGED <<store, fs, envs, ADMIN_API_TOKEN, uploads, now, nAgents, nJobs, nEnvs, limit>>

\* lines 302-310: read the job table, check the job and its owner, set
\* status, output and updated in the in-memory copy.
report_read_jobs(p) ==
  /\ req[p].pc = "report_read_jobs"
  /\ LET r    == req[p]
         jobs == read_json(JOBS_FILE)
         chk  == report_check(jobs, r.job_id, r.agent_id)
     IN  IF chk = 404
           THEN /\ Set(p, Respond(r, 404, "job not found", {}))
                /\ UNCHANGED now
           ELSE IF chk = 403
             THEN /\ Set(p, Respond(r, 403,
                             "job does not belong to this agent", {}))
                  /\ UNCHANGED now
             ELSE \E t \in Clock :
                    /\ now' = t
                    /\ Set(p, [r EXCEPT
                          !.pc = "report_write",
                          !.jobs = [jobs EXCEPT ![r.job_id] =
                             reported(jobs[r.job_id], r.status, r.output, t)]])
  /\ UNCHANGED <<store, fs, envs, ADMIN_API_TOKEN, uploads, nAgents, nJobs, nEnvs, calls, limit>>

\* lines 311-312: write the in-memory copy back and answer.
report_write(p) ==
  /\ req[p].pc = "report_write"
  /\ fs' = write_json(JOBS_FILE, req[p].jobs)
  /\ Set(p, Respond(req[p], 200, None, [ok |-> TRUE]))
  /\ UNCHANGED <<store, envs, ADMIN_API_TOKEN, uploads, now, nAgents, nJobs, nEnvs, calls, limit>>

\* ------------------------------------------------------------- upload_env
\* lines 322-342: require_admin, take the payload, generate env_token, store
\* the payload in its own file.  has_env: whether a payload was sent.
upload_env_file(p) ==
  /\ Accept(p)
  /\ \E x_admin_token \in AdminHeaders, data \in Payloads \cup {None} :
       LET r == Fresh(Idle, "upload_env", Inspected(x_admin_token))
       IN  IF ~require_admin(x_admin_token)
             THEN /\ Set(p, Refused(r.op, r.token, "invalid admin token"))
                  /\ UNCHANGED <<envs, uploads, nEnvs>>
             ELSE IF data = None
               THEN /\ Set(p, Respond(r, 400, "no env provided", {}))
                    /\ UNCHANGED <<envs, uploads, nEnvs>>
               ELSE /\ nEnvs < MaxEnvs
                    /\ nEnvs' = nEnvs + 1
                    /\ LET env_token == EnvTokenOf(nEnvs + 1)
                       IN  /\ envs' = Put(envs, env_token, json_dump(data))
                           /\ uploads' = uploads \cup {<<env_token, data>>}
                           /\ Set(p, Respond([r EXCEPT !.env_token = env_token],
                                   200, None, [env_token |-> env_token]))
  /\ UNCHANGED <<store, fs, ADMIN_API_TOKEN, now, nAgents, nJobs, limit>>

\* ----------------------------------------------------------- download_env
\* What an agent may put in the env_token query parameter.
EnvQueries == {GuessedEnv} \cup {EnvTokenOf(k) : k \in 1..MaxEnvs}

\* lines 350-359: the token check, read the agent table, find the agent.
download_env_auth(p) ==
  /\ Accept(p)
  /\ \E x_agent_token \in AgentHeaders, env_token \in EnvQueries :
       LET r == [Fresh(Idle, "download_env", x_agent_token) EXCEPT
                   !.env_token = env_token]
       IN  IF x_agent_token = None
             THEN Set(p, Refused(r.op, r.token, "missing agent token"))
             ELSE LET agents   == read_json(AGENTS_FILE)
                      agent_id == authenticate(agents, x_agent_token)
                  IN  IF agent_id = None
                        THEN Set(p, Refused(r.op, r.token,
                                            "invalid agent token"))
                        ELSE Set(p, [r EXCEPT !.pc = "download_env_read_jobs",
                                              !.agents = agents,
                                              !.agent_id = agent_id])
  /\ UNCHANGED <<store, fs, envs, ADMIN_API_TOKEN, uploads, now, nAgents, nJobs, nEnvs, limit>>

\* lines 362-369: read the job table, look for a pending job of the caller
\* that references env_token.
download_env_read_jobs(p) ==
  /\ req[p].pc = "download_env_read_jobs"
  /\ LET r    == req[p]
         jobs == read_json(JOBS_FILE)
     IN  IF ~env_allowed(jobs, r.agent_id, r.env_token)
           THEN Set(p, Respond(r, 403,
                  "no job for this agent references this env token", {}))
           ELSE Set(p, [r EXCEPT !.pc = "download_env_open", !.jobs = jobs])
  /\ UNCHANGED <<store, fs, envs, ADMIN_API_TOKEN, uploads, now, nAgents, nJobs, nEnvs, calls, limit>>

\* lines 371-376: look for the bundle's file and answer its content.
download_env_open(p) ==
  /\ req[p].pc = "download_env_open"
  /\ LET r == req[p]
     IN  IF r.env_token \notin DOMAIN envs
           THEN Set(p, Respond(r, 404, "env token not found", {}))
           ELSE Set(p, Respond(r, 200, None, json_load(envs[r.env_token])))
  /\ UNCHANGED <<store, fs, envs, ADMIN_API_TOKEN, uploads, now, nAgents, nJobs, nEnvs, calls, limit>>

Next ==
  \/ \E p \in Procs : register_read(p)
  \/ \E p \in Procs : register_write(p)
  \/ \E p \in Procs : list_agents(p)
  \/ \E p \in Procs : list_jobs(p)
  \/ \E p \in Procs : create_job_read_agents(p)
  \/ \E p \in Procs : create_job_read_jobs(p)
  \/ \E p \in Procs : create_job_write(p)
  \/ \E p \in Procs : poll_jobs_auth(p)
  \/ \E p \in Procs : poll_jobs_touch(p)
  \/ \E p \in Procs : poll_jobs_read_jobs(p)
  \/ \E p \in Procs : report_auth(p)
  \/ \E p \in Procs : report_read_jobs(p)
  \/ \E p \in Procs : report_write(p)
  \/ \E p \in Procs : upload_env_file(p)
  \/ \E p \in Procs : download_env_auth(p)
  \/ \E p \in Procs : download_env_read_jobs(p)
  \/ \E p \in Procs : download_env_open(p)

Spec == Init /\ [][Next]_vars

SpecRestart == InitRestart /\ [][Next]_vars

\* ------------------------------------------------- vocabulary of the claims
Agents == fs[AGENTS_FILE]
Jobs   == fs[JOBS_FILE]

\* The agent a token was issued to by register, None for any other value.
IssuedTo(tok) ==
  LET ks == {k \in 1..nAgents : AgentTokenOf(k) = tok}
  IN  IF ks = {} THEN None ELSE AgentIdOf(CHOOSE k \in ks : TRUE)

Answered(p, op)  == req[p].pc = "done" /\ req[p].op = op
Succeeded(p, op) == Answered(p, op) /\ req[p].code = 200

\* Thread p takes a step.
Steps(p) == req'[p] # req[p]

\* Thread p is between its read_json and its write_json of the document.
InCycle(p, path) ==
  IF path = AGENTS_FILE
    THEN req[p].pc \in {"register_write", "poll_jobs_touch"}
    ELSE req[p].pc \in {"create_job_write", "report_write"}

\* The step thread p takes calls read_json or write_json on the document.
Accesses(p, path) ==
  /\ Steps(p)
  /\ IF path = AGENTS_FILE
       THEN \/ req[p].pc \in {"register_write", "poll_jobs_touch"}
            \/ /\ Free(p)
               /\ req'[p].op \in {"register", "list_agents", "create_job",
                                  "poll_jobs", "report", "download_env"}
               /\ req'[p].detail \notin {"invalid admin token",
                                         "missing agent token"}
       ELSE \/ req[p].pc \in {"create_job_read_jobs", "create_job_write",
                              "poll_jobs_read_jobs", "report_read_jobs",
                              "report_write", "download_env_read_jobs"}
            \/ /\ Free(p)
               /\ req'[p].op = "list_jobs"
               /\ req'[p].detail # "invalid admin token"

\* ---------------------------------------------------------------- claims
\* C1: when two report calls for two distinct jobs of the same agent have
\* both succeeded, each of the two jobs in the job table carries the status
\* and the output of its own report call.
C1_ConcurrentReportsKeepOwnUpdate ==
  \A p, q \in Procs :
    ( /\ p # q
      /\ Succeeded(p, "report") /\ Succeeded(q, "report")
      /\ req[p].job_id # req[q].job_id
      /\ IssuedTo(req[p].token) = IssuedTo(req[q].token)
      /\ {req[p].job_id, req[q].job_id} \subseteq DOMAIN Jobs )
    => \A x \in {p, q} :
         /\ Jobs[req[x].job_id].status = req[x].status
         /\ Jobs[req[x].job_id].output = req[x].output

\* C2: while a request is between its read_json and its write_json of a
\* document, no other request reads or writes that document.
C2_ReadModifyWriteNeverInterleave ==
  [][\A path \in {AGENTS_FILE, JOBS_FILE} : \A p, q \in Procs :
       (p # q /\ InCycle(p, path)) => ~Accesses(q, path)]_vars

\* C3: every job in the list a poll_jobs call returns belongs to the agent
\* the caller's token was issued to; no job of another agent is returned.
C3_PollReturnsOnlyOwnJobs ==
  \A p \in Procs :
    Succeeded(p, "poll_jobs") =>
      \A job \in req[p].body : job.agent_id = IssuedTo(req[p].token)

\* C3's case: a poll by agent B has been answered while the job table holds
\* a pending job of another agent.
C3_Witness ==
  \E p \in Procs :
    /\ Succeeded(p, "poll_jobs")
    /\ \E jid \in DOMAIN Jobs :
         /\ Jobs[jid].status = "pending"
         /\ Jobs[jid].agent_id # IssuedTo(req[p].token)

\* C4: a poll_jobs call that arrives after report(job_id, ...) has succeeded
\* does not return that job_id, whatever status the report supplied.
C4_ReportedJobNeverPolledAgain ==
  \A p \in Procs :
    Succeeded(p, "poll_jobs") =>
      \A job \in req[p].body : job.job_id \notin req[p].reported_before

\* C5: a report by an agent that is not the job's agent_id is answered 403
\* and no step of it changes the job table or the agent table.
C5_ForeignReportRefused ==
  [][\A p \in Procs :
       /\ ( /\ req[p].pc = "report_read_jobs" /\ Steps(p)
            /\ req[p].job_id \in DOMAIN Jobs
            /\ Jobs[req[p].job_id].agent_id # IssuedTo(req[p].token) )
          => ( /\ req'[p].pc = "done" /\ req'[p].code = 403
               /\ fs' = fs )
       /\ ( /\ Steps(p) /\ req'[p].op = "report"
            /\ req[p].pc # "report_write" )
          => fs' = fs
       /\ (req[p].pc = "report_write" /\ Steps(p)) => req'[p].code = 200
    ]_vars

\* C5's case: a report on another agent's job has been answered 403 and the
\* job is still pending, without output, as it was created.
C5_Witness ==
  \E p \in Procs :
    /\ Answered(p, "report") /\ req[p].code = 403
    /\ req[p].detail = "job does not belong to this agent"
    /\ req[p].job_id \in DOMAIN Jobs
    /\ Jobs[req[p].job_id].agent_id # IssuedTo(req[p].token)
    /\ Jobs[req[p].job_id].status = "pending"
    /\ Jobs[req[p].job_id].output = None

\* The job table holds a pending job of agent_id that references env_token.
Qualifies(agent_id, env_token) ==
  \E jid \in DOMAIN Jobs :
     /\ Jobs[jid].agent_id = agent_id
     /\ Jobs[jid].status = "pending"
     /\ Jobs[jid].env_token = env_token

\* C6 as claimed: download_env succeeds if and only if the job table it
\* reads holds a pending job of the caller that references the token.
C6_DownloadIffPendingJob ==
  [][\A p \in Procs :
       /\ (req[p].pc = "download_env_read_jobs" /\ Steps(p)
             /\ ~Qualifies(IssuedTo(req[p].token), req[p].env_token))
          => (req'[p].pc = "done" /\ req'[p].code # 200)
       /\ (req[p].pc = "download_env_read_jobs" /\ Steps(p)
             /\ Qualifies(IssuedTo(req[p].token), req[p].env_token))
          => req'[p].pc = "download_env_open"
       /\ (req[p].pc = "download_env_open" /\ Steps(p))
          => req'[p].code = 200
    ]_vars

\* C6 amended: download_env succeeds if and only if the job table it reads
\* holds a pending job of the caller that references the token and, when it
\* then looks for the bundle, a bundle is stored under the token; it answers
\* 403 without such a job and 404 with such a job but no stored bundle.
C6_DownloadIffPendingJobAndBundle ==
  [][\A p \in Procs :
       /\ (req[p].pc = "download_env_read_jobs" /\ Steps(p)
             /\ ~Qualifies(IssuedTo(req[p].token), req[p].env_token))
          => (req'[p].pc = "done" /\ req'[p].code = 403)
       /\ (req[p].pc = "download_env_read_jobs" /\ Steps(p)
             /\ Qualifies(IssuedTo(req[p].token), req[p].env_token))
          => req'[p].pc = "download_env_open"
       /\ (req[p].pc = "download_env_open" /\ Steps(p))
          => /\ req'[p].pc = "done"
             /\ req'[p].code =
                  IF req[p].env_token \in DOMAIN envs THEN 200 ELSE 404
    ]_vars

\* C6's case: a download has been refused 403 although a job of the caller
\* references the token and its bundle is stored, the job being no longer
\* pending.
C6_Witness ==
  \E p \in Procs :
    /\ Answered(p, "download_env") /\ req[p].code = 403
    /\ req[p].detail = "no job for this agent references this env token"
    /\ req[p].env_token \in DOMAIN envs
    /\ \E jid \in DOMAIN Jobs :
         /\ Jobs[jid].agent_id = IssuedTo(req[p].token)
         /\ Jobs[jid].env_token = req[p].env_token
         /\ Jobs[jid].status # "pending"
    /\ ~Qualifies(IssuedTo(req[p].token), req[p].env_token)

\* C7: the pairs register has returned are pairwise distinct, and each stays
\* valid: the agent table holds the returned agent_id with the returned
\* token.
C7_RegisteredPairStaysValid ==
  /\ \A p, q \in Procs :
       (p # q /\ Succeeded(p, "register") /\ Succeeded(q, "register"))
         => /\ req[p].body.agent_id # req[q].body.agent_id
            /\ req[p].body.agent_token # req[q].body.agent_token
  /\ \A p \in Procs :
       Succeeded(p, "register") =>
         /\ req[p].body.agent_id \in DOMAIN Agents
         /\ Agents[req[p].body.agent_id].token = req[p].body.agent_token

\* C8: a job's status is always pending, done or failed, and it changes only
\* from pending to done or failed, by the write of a report of the agent the
\* job belongs to (so at most once).
C8_StatusChangesOnce ==
  [][\A jid \in DOMAIN Jobs :
       /\ Jobs[jid].status \in {"pending", "done", "failed"}
       /\ (jid \in DOMAIN Jobs' /\ Jobs'[jid].status # Jobs[jid].status)
          => /\ Jobs[jid].status = "pending"
             /\ Jobs'[jid].status \in {"done", "failed"}
             /\ \E p \in Procs :
                  /\ req[p].pc = "report_write" /\ Steps(p)
                  /\ req[p].job_id = jid
                  /\ IssuedTo(req[p].token) = Jobs[jid].agent_id
    ]_vars

\* C9: create_job for an agent_id that is not in the agent table it has read
\* is answered 404 and changes neither table; otherwise its write adds
\* exactly one new job, pending, with the agent_id and env_token supplied,
\* and leaves every job record already in the table as it was.
C9_CreateJobAddsOneJob ==
  [][\A p \in Procs :
       /\ ( /\ req[p].pc = "create_job_read_jobs" /\ Steps(p)
            /\ req[p].agent_arg \notin DOMAIN req[p].agents )
          => (req'[p].pc = "done" /\ req'[p].code = 404 /\ fs' = fs)
       /\ (req[p].pc = "create_job_write" /\ Steps(p))
          => LET jid == req[p].job_id
             IN  /\ req'[p].code = 200
                 /\ jid \notin DOMAIN Jobs
                 /\ DOMAIN Jobs' = DOMAIN Jobs \cup {jid}
                 /\ Jobs'[jid].agent_id = req[p].agent_arg
                 /\ Jobs'[jid].env_token = req[p].env_token
                 /\ Jobs'[jid].status = "pending"
                 /\ \A old \in DOMAIN Jobs : Jobs'[old] = Jobs[old]
                 /\ Agents' = Agents
    ]_vars

\* The operations that call require_admin first.
AdminOps == {"list_agents", "list_jobs", "create_job", "upload_env"}

\* C10: with an admin token configured, an admin operation whose header is
\* missing or differs from it (an agent's bearer token included) is answered
\* 403 at once, nothing read and nothing changed; with none configured the
\* operation goes on whatever the header.
C10_AdminTokenGuardsAdminOps ==
  [][\A p \in Procs :
       (Free(p) /\ Steps(p) /\ req'[p].op \in AdminOps)
         => IF ADMIN_API_TOKEN # None /\ req'[p].token # ADMIN_API_TOKEN
              THEN /\ req'[p].pc = "done" /\ req'[p].code = 403
                   /\ req'[p].agents = Empty /\ req'[p].jobs = Empty
                   /\ req'[p].body = {}
                   /\ fs' = fs /\ envs' = envs
              ELSE req'[p].code # 403
    ]_vars

\* C10's case: with the admin token configured, create_job sent with an
\* agent's bearer token in the admin header has been answered 403.
C10_Witness ==
  \E p \in Procs :
    /\ ADMIN_API_TOKEN = AdminSecret
    /\ Answered(p, "create_job")
    /\ req[p].token \in IssuedTokens
    /\ req[p].code = 403

Called(p, c) ==
  /\ req'[p].op = c.op
  /\ c.op \in {"create_job", "list_jobs", "list_agents", "upload_env"}
       => (ADMIN_API_TOKEN # None => req'[p].token = AdminSecret)
  /\ c.op \in {"poll_jobs", "report", "download_env"}
       => req'[p].token = c.token
  /\ c.op = "upload_env" => req'[p].detail # "no env provided"
  /\ \/ req'[p].pc = "done"
     \/ \A f \in DOMAIN c \ {"op", "token"} : req'[p][f] = c[f]

Scripted(p, script) ==
  /\ \A q \in Procs \ {p} : Free(q)
  /\ Free(p) => Called(p, script[calls + 1])

\* The store as the module leaves it at first start, for a session of as
\* many calls as the script has.
InitScripted(script) ==
  /\ fs = [x \in {AGENTS_FILE, JOBS_FILE} |-> Empty]
  /\ envs = Empty
  /\ uploads = {}
  /\ ADMIN_API_TOKEN \in {None, AdminSecret}
  /\ now = 0
  /\ nAgents = 0 /\ nJobs = 0 /\ nEnvs = 0
  /\ calls = 0
  /\ limit = Len(script)
  /\ req = [p \in Procs |-> Idle]
  /\ StoreAtRest

\* register; create_job for the agent; poll; report done/ok; poll; list_jobs.
EndToEnd ==
  << [op |-> "register"],
     [op |-> "create_job", agent_arg |-> AgentIdOf(1)],
     [op |-> "poll_jobs", token |-> AgentTokenOf(1)],
     [op |-> "report", token |-> AgentTokenOf(1), job_id |-> JobIdOf(1),
      status |-> "done", output |-> "ok"],
     [op |-> "poll_jobs", token |-> AgentTokenOf(1)],
     [op |-> "list_jobs"] >>

InitEndToEnd == InitScripted(EndToEnd)

NextEndToEnd ==
  \/ \E p \in Procs : register_read(p) /\ Scripted(p, EndToEnd)
  \/ \E p \in Procs : register_write(p) /\ Scripted(p, EndToEnd)
  \/ \E p \in Procs : create_job_read_agents(p) /\ Scripted(p, EndToEnd)
  \/ \E p \in Procs : create_job_read_jobs(p) /\ Scripted(p, EndToEnd)
  \/ \E p \in Procs : create_job_write(p) /\ Scripted(p, EndToEnd)
  \/ \E p \in Procs : poll_jobs_auth(p) /\ Scripted(p, EndToEnd)
  \/ \E p \in Procs : poll_jobs_touch(p) /\ Scripted(p, EndToEnd)
  \/ \E p \in Procs : poll_jobs_read_jobs(p) /\ Scripted(p, EndToEnd)
  \/ \E p \in Procs : report_auth(p) /\ Scripted(p, EndToEnd)
  \/ \E p \in Procs : report_read_jobs(p) /\ Scripted(p, EndToEnd)
  \/ \E p \in Procs : report_write(p) /\ Scripted(p, EndToEnd)
  \/ \E p \in Procs : list_jobs(p) /\ Scripted(p, EndToEnd)

SpecEndToEnd == InitEndToEnd /\ [][NextEndToEnd]_vars

\* C12: in the session register, create_job for the agent, poll, report
\* done/ok, poll, list_jobs, made with no other call in between, every call
\* is answered 200; the first poll returns exactly the created job, pending;
\* the second poll returns the empty list; the job list shows the job done.
C12_EndToEndSession ==
  \A p \in Procs :
    req[p].pc = "done" =>
      /\ req[p].code = 200
      /\ (calls = 2) => req[p].body = [job_id |-> JobIdOf(1)]
      /\ (calls = 3) =>
           /\ Cardinality(req[p].body) = 1
           /\ \A job \in req[p].body :
                /\ job.job_id = JobIdOf(1)
                /\ job.agent_id = AgentIdOf(1)
                /\ job.status = "pending"
      /\ (calls = 5) => req[p].body = {}
      /\ (calls = 6) =>
           /\ DOMAIN req[p].body.jobs = {JobIdOf(1)}
           /\ req[p].body.jobs[JobIdOf(1)].status = "done"
           /\ req[p].body.jobs[JobIdOf(1)].output = "ok"

\* C12's case: the last call of the session, the job list, has been answered.
C12_Witness ==
  \E p \in Procs :
    /\ calls = Len(EndToEnd)
    /\ Succeeded(p, "list_jobs")
    /\ JobIdOf(1) \in DOMAIN req[p].body.jobs

\* register; create_job for the agent with an env token no upload returned;
\* download_env of that token; upload_env; the same download_env again;
\* download_env of the token the upload returned.
PendingBeforeUpload ==
  << [op |-> "register"],
     [op |-> "create_job", agent_arg |-> AgentIdOf(1), env_token |-> GuessedEnv],
     [op |-> "download_env", token |-> AgentTokenOf(1), env_token |-> GuessedEnv],
     [op |-> "upload_env"],
     [op |-> "download_env", token |-> AgentTokenOf(1), env_token |-> GuessedEnv],
     [op |-> "download_env", token |-> AgentTokenOf(1), env_token |-> EnvTokenOf(1)] >>

InitPendingBeforeUpload == InitScripted(PendingBeforeUpload)

NextPendingBeforeUpload ==
  \/ \E p \in Procs : register_read(p) /\ Scripted(p, PendingBeforeUpload)
  \/ \E p \in Procs : register_write(p) /\ Scripted(p, PendingBeforeUpload)
  \/ \E p \in Procs : create_job_read_agents(p) /\ Scripted(p, PendingBeforeUpload)
  \/ \E p \in Procs : create_job_read_jobs(p) /\ Scripted(p, PendingBeforeUpload)
  \/ \E p \in Procs : create_job_write(p) /\ Scripted(p, PendingBeforeUpload)
  \/ \E p \in Procs : download_env_auth(p) /\ Scripted(p, PendingBeforeUpload)
  \/ \E p \in Procs : download_env_read_jobs(p) /\ Scripted(p, PendingBeforeUpload)
  \/ \E p \in Procs : download_env_open(p) /\ Scripted(p, PendingBeforeUpload)
  \/ \E p \in Procs : upload_env_file(p) /\ Scripted(p, PendingBeforeUpload)

SpecPendingBeforeUpload ==
  InitPendingBeforeUpload /\ [][NextPendingBeforeUpload]_vars

\* C13 as stated: the download of an env token that a pending job of the
\* caller references and that has no bundle is answered 404, and the same
\* download made after an upload_env call is answered 200.
C13_DownloadSucceedsAfterUpload ==
  \A p \in Procs :
    Answered(p, "download_env") =>
      /\ (calls = 3) => req[p].code = 404
      /\ (calls = 5) => req[p].code = 200

\* C13: the download of an env token that a pending job of the caller
\* references and that has no bundle is answered 404, before and after an
\* upload_env call: the upload stores its bundle under a token of its own,
\* and a download of that token is answered 403, no job referencing it.
C13_DownloadStillNotFoundAfterUpload ==
  \A p \in Procs :
    Answered(p, "download_env") =>
      /\ (calls \in {3, 5}) => /\ req[p].code = 404
                               /\ req[p].detail = "env token not found"
      /\ (calls >= 5) => /\ DOMAIN envs = {EnvTokenOf(1)}
                         /\ GuessedEnv \notin DOMAIN envs
      /\ (calls = 6) => req[p].code = 403

\* C13's case: the download repeated after the upload has been answered and
\* the job that references the token is still pending.
C13_Witness ==
  \E p \in Procs :
    /\ calls = 5
    /\ Answered(p, "download_env")
    /\ envs # Empty
    /\ \E jid \in DOMAIN Jobs :
         /\ Jobs[jid].env_token = req[p].env_token
         /\ Jobs[jid].status = "pending"

\* C14: a job that is in the job table with status pending and that no
\* report call names is still in the job table, with status pending, after
\* every step of register, create_job, poll_jobs, download_env and of
\* reports on other jobs.
C14_UnreportedJobStaysPending ==
  [][\A jid \in DOMAIN Jobs :
       ( /\ Jobs[jid].status = "pending"
         /\ \A q \in Procs : ~(req[q].op = "report" /\ req[q].job_id = jid) )
       => /\ jid \in DOMAIN Jobs'
          /\ Jobs'[jid].status = "pending"]_vars

\* C15: no two records of the agent table share a token or an agent_id, and
\* a record that is in the table before and after a step carries the same
\* agent_id and the same token after it as before.
C15_AgentIdentityUniqueAndStable ==
  [][ /\ \A a, b \in DOMAIN fs'[AGENTS_FILE] :
           a # b => /\ fs'[AGENTS_FILE][a].token # fs'[AGENTS_FILE][b].token
                    /\ fs'[AGENTS_FILE][a].agent_id # fs'[AGENTS_FILE][b].agent_id
      /\ \A a \in DOMAIN Agents \cap DOMAIN fs'[AGENTS_FILE] :
           /\ fs'[AGENTS_FILE][a].agent_id = Agents[a].agent_id
           /\ fs'[AGENTS_FILE][a].token = Agents[a].token ]_vars

\* C15's case: the table holds two agents, one registered in this run, and a
\* poll has rewritten the table.
C15_Witness ==
  /\ Cardinality(DOMAIN Agents) = 2
  /\ \E p \in Procs : Succeeded(p, "poll_jobs")

\* ----------------------------------------------- storage layer: handlers
\* The variables of the handler-level specifications that the storage layer
\* leaves alone.
handlers == <<fs, envs, ADMIN_API_TOKEN, now, nAgents, nJobs, nEnvs, uploads, req>>

\* The read_json and write_json calls each handler makes, in order.
StoreOps == {"register", "list_agents", "create_job", "list_jobs",
             "poll_jobs", "report", "download_env"}

Program(op) ==
  CASE op = "register"     -> << <<"read", AGENTS_FILE>>, <<"write", AGENTS_FILE>> >>
    [] op = "list_agents"  -> << <<"read", AGENTS_FILE>> >>
    [] op = "create_job"   -> << <<"read", AGENTS_FILE>>, <<"read", JOBS_FILE>>,
                                 <<"write", JOBS_FILE>> >>
    [] op = "list_jobs"    -> << <<"read", JOBS_FILE>> >>
    [] op = "poll_jobs"    -> << <<"read", AGENTS_FILE>>, <<"write", AGENTS_FILE>>,
                                 <<"read", JOBS_FILE>> >>
    [] op = "report"       -> << <<"read", AGENTS_FILE>>, <<"read", JOBS_FILE>>,
                                 <<"write", JOBS_FILE>> >>
    [] op = "download_env" -> << <<"read", AGENTS_FILE>>, <<"read", JOBS_FILE>> >>

\* The calls after which a handler may raise HTTPException instead of going
\* on (403 on the token, 404 on the agent or the job, 403 on the owner).
Exits(op) ==
  CASE op = "create_job"   -> {2}
    [] op = "poll_jobs"    -> {1}
    [] op = "report"       -> {1, 2}
    [] op = "download_env" -> {1, 2}
    [] OTHER               -> {}

\* The table a handler passes to write_json, made from the table its last
\* read_json returned: register and create_job add a record under a fresh
\* identifier (the table stops growing at MaxAgents, MaxJobs records);
\* poll_jobs and report write back the table with one record's fields set
\* anew, which leaves its keys as they are.
NewData(t) ==
  LET n == Cardinality(DOMAIN t.got)
  IN  IF t.op = "register" /\ n < MaxAgents
        THEN Put(t.got, AgentIdOf(n + 1),
                 new_agent(AgentIdOf(n + 1), AgentTokenOf(n + 1), 0))
      ELSE IF t.op = "create_job" /\ n < MaxJobs
        THEN Put(t.got, JobIdOf(n + 1),
                 new_job(JobIdOf(n + 1), AgentIdOf(1), None, 0))
      ELSE t.got

CallOf(t) == Program(t.op)[t.k]
PathOf(t) == CallOf(t)[2]

\* The handler's response: its locals are gone; the value its last read_json
\* returned is kept with it, for the claims to look at.
Response(t, code) == [NoCall EXCEPT !.pc = "done", !.code = code, !.got = t.got]

\* The handler after its k-th storage call has returned: the next call, or
\* the response.
Returned(t, leave) ==
  IF leave
    THEN Response(t, 403)
    ELSE IF t.k = Len(Program(t.op))
      THEN Response(t, 200)
      ELSE [t EXCEPT !.pc = "call", !.k = t.k + 1, !.data = Empty, !.old = NoFile]

\* Whether the handler raises after the call that returned got: it may where
\* Exits says so, and it does when it looks for the caller's agent or for
\* the reported job in an empty table.
Leaves(t, got) ==
  IF t.k \notin Exits(t.op) THEN {FALSE}
  ELSE IF got = Empty /\ t.op # "create_job" THEN {TRUE}
  ELSE BOOLEAN

\* read_json's exception handler turns any failure into RuntimeError, which
\* the handler does not catch: the request ends with a server error.
Raised(t) == Response(t, 500)

\* A "with _fs_lock:" block whose exit does not release the lock when the
\* block raised.
released_unless_raised(holder, raised) == IF raised THEN holder ELSE 0
\* Leaving a "with _fs_lock:" block, by return or by exception.
released(holder, raised) == 0

StoreFree(p) == th[p].pc \in {"idle", "done"}

\* A request arrives and its handler reaches its first storage call.
dispatch(p) ==
  /\ import = "serving"
  /\ StoreFree(p)
  /\ \A q \in Procs : StoreFree(q) => p <= q
  /\ calls < limit
  /\ calls' = calls + 1
  /\ \E op \in StoreOps : th' = [th EXCEPT ![p] = [NoCall EXCEPT !.op = op, !.k = 1, !.pc = "call"]]
  /\ UNCHANGED <<handlers, limit, disk, fs_lock, written, import, crashes>>

\* line 28: with _fs_lock.
read_json_acquire(p) ==
  /\ th[p].pc = "call" /\ CallOf(th[p])[1] = "read"
  /\ fs_lock = 0
  /\ fs_lock' = p
  /\ th' = [th EXCEPT ![p].pc = "read_locked"]
  /\ UNCHANGED <<handlers, calls, limit, disk, written, import, crashes>>

\* lines 29-36: {} if the file is missing, else json.load of it; a text that
\* does not parse raises.  The lock is released either way.
read_json_body(p) ==
  /\ th[p].pc = "read_locked"
  /\ LET t    == th[p]
         file == disk[PathOf(t)]
         raised == file[1] = "torn"
     IN  /\ fs_lock' = released(p, raised)
         /\ IF raised
              THEN th' = [th EXCEPT ![p] = Raised(t)]
              ELSE LET got == IF file = NoFile THEN Empty ELSE json_load(file)
                   IN  \E leave \in Leaves(t, got) :
                         th' = [th EXCEPT ![p] = Returned([t EXCEPT !.got = got],
                                                          leave)]
  /\ UNCHANGED <<handlers, calls, limit, disk, written, import, crashes>>

\* lines 42-46: the caller's table, the temporary path, with _fs_lock.  The
\* content the document has at this moment is recorded with the call.
write_json_acquire(p) ==
  /\ th[p].pc = "call" /\ CallOf(th[p])[1] = "write"
  /\ fs_lock = 0
  /\ fs_lock' = p
  /\ LET data == NewData(th[p])
     IN  /\ th' = [th EXCEPT ![p].pc = "write_locked", ![p].data = data,
                             ![p].old = disk[PathOf(th[p])]]
         /\ written' = [written EXCEPT ![PathOf(th[p])] = @ \cup {data}]
  /\ UNCHANGED <<handlers, calls, limit, disk, import, crashes>>

\* line 47: open(tmp, "w") empties the temporary file; json.dump starts to
\* write into it.
write_json_open(p) ==
  /\ th[p].pc = "write_locked"
  /\ disk' = [disk EXCEPT ![tmp_path(PathOf(th[p]))] = Torn(th[p].data)]
  /\ th' = [th EXCEPT ![p].pc = "write_opened"]
  /\ UNCHANGED <<handlers, calls, limit, fs_lock, written, import, crashes>>

\* lines 47-48: json.dump has written the whole text and the file is closed.
write_json_dump(p) ==
  /\ th[p].pc = "write_opened"
  /\ disk' = [disk EXCEPT ![tmp_path(PathOf(th[p]))] = json_dump(th[p].data)]
  /\ th' = [th EXCEPT ![p].pc = "write_dumped"]
  /\ UNCHANGED <<handlers, calls, limit, fs_lock, written, import, crashes>>

\* line 49: os.replace(tmp, path).
write_json_replace(p) ==
  /\ th[p].pc = "write_dumped"
  /\ LET path == PathOf(th[p])
     IN  disk' = [f \in Files |->
                    IF f = path THEN disk[tmp_path(path)]
                    ELSE IF f = tmp_path(path) THEN NoFile
                    ELSE disk[f]]
  /\ th' = [th EXCEPT ![p].pc = "write_replaced"]
  /\ UNCHANGED <<handlers, calls, limit, fs_lock, written, import, crashes>>

\* lines 50-53: chmod, its failure swallowed; the lock is released.
write_json_chmod(p) ==
  /\ th[p].pc = "write_replaced"
  /\ fs_lock' = released(p, FALSE)
  /\ th' = [th EXCEPT ![p] = Returned(th[p], FALSE)]
  /\ UNCHANGED <<handlers, calls, limit, disk, written, import, crashes>>

\* The module-level init of a document, lines 173-189: nothing to do if the
\* file exists, else open(path, "w") creates it empty.
AfterImport(path) == IF path = AGENTS_FILE THEN JOBS_FILE ELSE "serving"
Creating(path)    == path \o ", created empty"

import_create(path) ==
  /\ import = path
  /\ IF disk[path] # NoFile
       THEN /\ import' = AfterImport(path)
            /\ UNCHANGED disk
       ELSE /\ import' = Creating(path)
            /\ disk' = [disk EXCEPT ![path] = Torn(Empty)]
  /\ UNCHANGED <<handlers, calls, limit, fs_lock, th, written, crashes>>

\* json.dump({}, fh), close, chmod.
import_dump(path) ==
  /\ import = Creating(path)
  /\ disk' = [disk EXCEPT ![path] = json_dump(Empty)]
  /\ import' = AfterImport(path)
  /\ UNCHANGED <<handlers, calls, limit, fs_lock, th, written, crashes>>

\* The process is killed and started again: its threads and its lock are
\* gone, the files are as they were, the module is imported anew.
Crash ==
  /\ crashes < MaxCrashes
  /\ crashes' = crashes + 1
  /\ th' = [p \in Procs |-> NoCall]
  /\ fs_lock' = 0
  /\ import' = AGENTS_FILE
  /\ UNCHANGED <<handlers, calls, limit, disk, written>>

\* The first start over an empty storage directory.
InitStore ==
  /\ fs = [x \in {AGENTS_FILE, JOBS_FILE} |-> Empty]
  /\ envs = Empty
  /\ uploads = {}
  /\ ADMIN_API_TOKEN = None
  /\ now = 0
  /\ nAgents = 0 /\ nJobs = 0 /\ nEnvs = 0
  /\ calls = 0
  /\ limit = StoreCalls
  /\ req = [p \in Procs |-> Idle]
  /\ disk = [f \in Files |-> NoFile]
  /\ fs_lock = 0
  /\ th = [p \in Procs |-> NoCall]
  /\ written = [path \in Docs |-> {}]
  /\ import = AGENTS_FILE
  /\ crashes = 0

NextStore ==
  \/ \E p \in Procs : dispatch(p)
  \/ \E p \in Procs : read_json_acquire(p)
  \/ \E p \in Procs : read_json_body(p)
  \/ \E p \in Procs : write_json_acquire(p)
  \/ \E p \in Procs : write_json_open(p)
  \/ \E p \in Procs : write_json_dump(p)
  \/ \E p \in Procs : write_json_replace(p)
  \/ \E p \in Procs : write_json_chmod(p)
  \/ \E path \in Docs : import_create(path)
  \/ \E path \in Docs : import_dump(path)
  \/ Crash

SpecStore == InitStore /\ [][NextStore]_vars

\* C16: at every step taken while a write_json(path, new) call is under way,
\* a kill of the process included, the file at path holds afterwards either
\* the whole content it had when the call began or the whole text of new;
\* and a read_json(path) that returns, returns the empty mapping or a
\* document that an earlier write_json call on that path was given.
C16_WriteJsonIsAtomicReplace ==
  [][ /\ \A p \in Procs :
           th[p].pc \in {"write_locked", "write_opened", "write_dumped",
                         "write_replaced"}
           => disk'[PathOf(th[p])] \in {th[p].old, json_dump(th[p].data)}
      /\ \A p \in Procs :
           (th[p].pc = "read_locked" /\ th'[p].pc # "read_locked"
              /\ th'[p].code # 500 /\ crashes' = crashes)
           => /\ th'[p].got \in {Empty} \cup written[PathOf(th[p])]
              /\ disk[PathOf(th[p])] = NoFile => th'[p].got = Empty
    ]_vars

\* C16's case: the process was killed while write_json was writing its
\* temporary file over a document that an earlier write_json had replaced;
\* it has started again, and a read_json of the document has returned the
\* table the earlier call wrote.
C16_Witness ==
  /\ crashes > 0
  /\ import = "serving"
  /\ \A p \in Procs : StoreFree(p)
  /\ \E path \in Docs :
       /\ disk[tmp_path(path)][1] = "torn"
       /\ disk[path][1] = "json"
       /\ disk[path][2] \in written[path]
       /\ disk[tmp_path(path)][2] # disk[path][2]
       /\ \E p \in Procs :
            /\ th[p].pc = "done" /\ th[p].code = 200
            /\ th[p].got = disk[path][2]

\* C17: the step by which a poll_jobs call of agent A writes the agent table
\* changes A's last_seen and nothing else: the table has the same agents
\* after it as before, every other record is as it was, A's agent_id and
\* token are as they were, and the job table is as it was.
C17_PollChangesLastSeenOnly ==
  [][\A p \in Procs :
       (req[p].pc = "poll_jobs_touch" /\ Steps(p)) =>
         /\ DOMAIN fs'[AGENTS_FILE] = DOMAIN Agents
         /\ \A a \in DOMAIN Agents \ {req[p].agent_id} :
              fs'[AGENTS_FILE][a] = Agents[a]
         /\ req[p].agent_id \in DOMAIN Agents =>
              /\ fs'[AGENTS_FILE][req[p].agent_id].agent_id = req[p].agent_id
              /\ fs'[AGENTS_FILE][req[p].agent_id].token = req[p].token
         /\ fs'[JOBS_FILE] = Jobs ]_vars

\* The header is the token of no record of the agent table.
MatchesNoAgent(tok) == \A a \in DOMAIN Agents : Agents[a].token # tok

\* C18: a poll_jobs, report or download_env call that carries no token, or a
\* token that matches no record of the agent table, is answered 403 at once,
\* whatever job or env token it names, and leaves the agent table (every
\* last_seen included), the job table and the bundles as they were.
C18_BadTokenRefusedWithoutEffect ==
  [][\A p \in Procs :
       ( /\ Free(p) /\ Steps(p)
         /\ req'[p].op \in {"poll_jobs", "report", "download_env"}
         /\ (req'[p].token = None \/ MatchesNoAgent(req'[p].token)) )
       => /\ req'[p].pc = "done"
          /\ req'[p].code = 403
          /\ req'[p].detail \in {"missing agent token", "invalid agent token"}
          /\ fs' = fs
          /\ envs' = envs ]_vars

\* C18's case: a report with a token that matches no agent has been answered
\* 403 with the token's error, and the job table still holds a job that the
\* call could have named.
C18_Witness ==
  \E p \in Procs :
    /\ Answered(p, "report")
    /\ req[p].token = BadToken
    /\ req[p].code = 403
    /\ req[p].detail = "invalid agent token"
    /\ DOMAIN Jobs # {}

\* C19: the agent_id of every job in the job table is a key of the agent
\* table.
C19_JobsReferToAgents ==
  \A jid \in DOMAIN Jobs : Jobs[jid].agent_id \in DOMAIN Agents

\* ------------------------------------------- storage layer: fair threads
\* The service up and serving, over documents the module-level init created:
\* whole, or left empty by a kill between open and json.dump in an earlier
\* start (such a document exists, so the init leaves it as it is).
InitServing ==
  /\ fs = [x \in {AGENTS_FILE, JOBS_FILE} |-> Empty]
  /\ envs = Empty
  /\ uploads = {}
  /\ ADMIN_API_TOKEN = None
  /\ now = 0
  /\ nAgents = 0 /\ nJobs = 0 /\ nEnvs = 0
  /\ calls = 0
  /\ limit = StoreCalls
  /\ req = [p \in Procs |-> Idle]
  /\ disk \in {d \in [Files -> {NoFile, json_dump(Empty), Torn(Empty)}] :
                 \A f \in Files : (d[f] = NoFile) <=> (f \notin Docs)}
  /\ fs_lock = 0
  /\ th = [p \in Procs |-> NoCall]
  /\ written = [path \in Docs |-> {}]
  /\ import = "serving"
  /\ crashes = 0

NextServing ==
  \/ \E p \in Procs : dispatch(p)
  \/ \E p \in Procs : read_json_acquire(p)
  \/ \E p \in Procs : read_json_body(p)
  \/ \E p \in Procs : write_json_acquire(p)
  \/ \E p \in Procs : write_json_open(p)
  \/ \E p \in Procs : write_json_dump(p)
  \/ \E p \in Procs : write_json_replace(p)
  \/ \E p \in Procs : write_json_chmod(p)

\* A step of the handler that thread p runs.
Runs(p) ==
  \/ read_json_acquire(p) \/ read_json_body(p)
  \/ write_json_acquire(p) \/ write_json_open(p) \/ write_json_dump(p)
  \/ write_json_replace(p) \/ write_json_chmod(p)

\* The scheduler does not leave a thread that can run waiting for ever.
SpecServing ==
  InitServing /\ [][NextServing]_vars /\ \A p \in Procs : WF_vars(Runs(p))

\* C20: a thread holds _fs_lock only inside the read_json or write_json call
\* it is making, never when it is about to acquire it and never after the
\* call has returned or raised; and every request a thread has started is
\* answered in the end.
C20_EveryCallReturns ==
  /\ [](\A p \in Procs :
          fs_lock = p => th[p].pc \in {"read_locked", "write_locked",
                                       "write_opened", "write_dumped",
                                       "write_replaced"})
  /\ \A p \in Procs : (~StoreFree(p)) ~> (th[p].pc = "done")

\* C20's case: a handler has ended on read_json's error path and another
\* thread, which was waiting, holds the lock.
C20_Witness ==
  \E p, q \in Procs :
    /\ p # q
    /\ th[p].pc = "done" /\ th[p].code = 500
    /\ fs_lock = q

====
